---- MODULE Spec2Model ----
(***************************************************************************)
(* A model of the DBF reader of src/dbf.go: New (header and field          *)
(* descriptor parsing, encoding resolution) and the iteration surface      *)
(* Next / Read / ReadAll / Err over one forward-only byte stream.          *)
(*                                                                         *)
(* Bytes are integers 0..255.  Go strings and []byte are sequences of      *)
(* integers.  A Go error is the sequence of its wrapping messages, outermost *)
(* first (fmt.Errorf("...: %w", err) prepends one message); nil is <<>>.   *)
(***************************************************************************)
EXTENDS Integers, Sequences, FiniteSets, TLC

VARIABLES
    stream,     \* the bytes the io.Reader handed to New will deliver
    opts,       \* the options handed to New, in call order
    phase,      \* "start" | "open" | "failed" (New returned an error) | "panicked"
    r,          \* the Reader struct (r.reader is the number of bytes consumed)
    newErr,     \* the error New returned
    lastOp,     \* the operation executed last
    lastRet,    \* what it returned
    obs         \* history the properties refer to (not program state)

vars == <<stream, opts, phase, r, newErr, lastOp, lastRet, obs>>

-----------------------------------------------------------------------------
(* Bounds of the explored inputs.                                          *)

MaxRecords == 2     \* record counts 0..MaxRecords are declared by the header
MaxFields == 2      \* schemas have 0..MaxFields field descriptors
MaxFieldLen == 2    \* declared field lengths are 0..MaxFieldLen
MaxOpts == 2        \* 0..MaxOpts options are passed to New
MaxDataLen == 3     \* field contents of 0..MaxDataLen bytes are decoded

-----------------------------------------------------------------------------
(* Program constants.                                                      *)

metadataLength == 32
fieldLength == 32
DeletedMark == 42       \* 0x2A '*'
Terminator == 13        \* 0x0D
LDIDIndex == 17         \* reserved[17]
Uint16 == 65536

FoxBASE == 2
FoxBASEPlusNoMemo == 3
VisualFoxPro == 48
VisualFoxProAI == 49
VisualFoxProVarchar == 50
dBASEIVTF == 67
dBASEIVSF == 99
FoxBASEPlusMemo == 131
dBASEIVMemo == 139
dBASEIVTFMemo == 203
FoxPro2 == 245
HiPerSix == 229

Byte == 0..255
NilErr == <<>>
EOF == <<"EOF">>
ErrUnexpectedEOF == <<"unexpected EOF">>
Wrap(msg, err) == <<msg>> \o err

\* The characters the code names, as byte values.
Chr ==
    [C |-> 67, N |-> 78, F |-> 70, D |-> 68, L |-> 76, M |-> 77, T |-> 84, t |-> 116,
     Y |-> 89, y |-> 121, f |-> 102, n |-> 110, X |-> 88]

\* Bind(v, F) is F(v), with v evaluated once
Bind(v, F(_)) == CHOOSE res \in { F(x) : x \in {v} } : TRUE

StrTrue == <<116, 114, 117, 101>>           \* "true"
StrFalse == <<102, 97, 108, 115, 101>>      \* "false"

-----------------------------------------------------------------------------
(* The byte stream: io.ReadFull and bufio.Reader.ReadByte on `stream`,     *)
(* from offset pos (bytes already consumed).                               *)

Min(a, b) == IF a < b THEN a ELSE b

\* io.ReadFull(r.reader, make([]byte, n)): n bytes or an error; a short read
\* consumes what was left.  n = 0 succeeds without reading.
ReadFull(pos, n) ==
    LET avail == Len(stream) - pos IN
    IF avail >= n
    THEN [data |-> SubSeq(stream, pos + 1, pos + n), err |-> NilErr, pos |-> pos + n]
    ELSE [data |-> <<>>,
          err |-> IF avail = 0 THEN EOF ELSE ErrUnexpectedEOF,
          pos |-> Len(stream)]

ReadByte(pos) ==
    IF pos < Len(stream)
    THEN [b |-> stream[pos + 1], err |-> NilErr, pos |-> pos + 1]
    ELSE [b |-> 0, err |-> EOF, pos |-> pos]

\* binary.LittleEndian.Uint16 / Uint32
RECURSIVE LittleEndian(_)
LittleEndian(bs) ==
    IF bs = <<>> THEN 0 ELSE bs[1] + 256 * LittleEndian(Tail(bs))

-----------------------------------------------------------------------------
(* Text: bytes.TrimRight, bytes.TrimSpace and the decoders.                *)

RECURSIVE TrimRightNul(_)
TrimRightNul(bs) ==
    IF bs # <<>> /\ bs[Len(bs)] = 0 THEN TrimRightNul(SubSeq(bs, 1, Len(bs) - 1)) ELSE bs

asciiSpace == {9, 10, 11, 12, 13, 32}

\* unicode.IsSpace on the UTF-8 sequence starting at bs[i]: the length of a
\* white-space rune there, or 0.
SpaceAt(bs, i) ==
    LET n == Len(bs) IN
    IF i > n THEN 0
    ELSE IF bs[i] \in asciiSpace THEN 1
    ELSE IF i + 1 <= n /\ bs[i] = 194 /\ bs[i + 1] \in {133, 160} THEN 2
    ELSE IF i + 2 <= n /\
            \/ bs[i] = 225 /\ bs[i + 1] = 154 /\ bs[i + 2] = 128
            \/ bs[i] = 226 /\ bs[i + 1] = 128 /\ bs[i + 2] \in (128..138) \cup {168, 169, 175}
            \/ bs[i] = 226 /\ bs[i + 1] = 129 /\ bs[i + 2] = 159
            \/ bs[i] = 227 /\ bs[i + 1] = 128 /\ bs[i + 2] = 128
         THEN 3
    ELSE 0

\* the length of a white-space rune ending at bs[j], or 0
SpaceBefore(bs, j) ==
    IF j < 1 THEN 0
    ELSE IF bs[j] \in asciiSpace THEN 1
    ELSE IF j >= 2 /\ SpaceAt(bs, j - 1) = 2 THEN 2
    ELSE IF j >= 3 /\ SpaceAt(bs, j - 2) = 3 THEN 3
    ELSE 0

RECURSIVE TrimLeftSpace(_)
TrimLeftSpace(bs) ==
    LET k == SpaceAt(bs, 1) IN
    IF k = 0 THEN bs ELSE TrimLeftSpace(SubSeq(bs, k + 1, Len(bs)))

RECURSIVE TrimRightSpace(_)
TrimRightSpace(bs) ==
    LET k == SpaceBefore(bs, Len(bs)) IN
    IF k = 0 THEN bs ELSE TrimRightSpace(SubSeq(bs, 1, Len(bs) - k))

TrimSpace(bs) == TrimRightSpace(TrimLeftSpace(bs))

\* The decoders.  A code page maps every byte to a rune and never fails: an
\* ASCII byte (< 128) to itself, a byte >= 0x80 to a rune of that code page (written
\* page * 1000 + byte).  "strict" stands for a caller-supplied
\* encoding.Decoder whose transform can fail: it fails on bytes >= 0x80.
CodePages == {"CP866", "CP1251", "CP1252", "CP437", "CP850"}
Decoders == CodePages \cup {"strict"}
NoDecoder == "nil"

PageNo(dec) ==
    CASE dec = "CP866" -> 866 [] dec = "CP1251" -> 1251 [] dec = "CP1252" -> 1252
      [] dec = "CP437" -> 437 [] dec = "CP850" -> 850

\* (*encoding.Decoder).Bytes
DecoderBytes(dec, bs) ==
    IF dec = "strict"
    THEN IF \E i \in 1..Len(bs) : bs[i] >= 128
         THEN [out |-> <<>>, err |-> <<"invalid input">>]
         ELSE [out |-> bs, err |-> NilErr]
    ELSE [out |-> [i \in 1..Len(bs) |->
                      IF bs[i] < 128 THEN bs[i] ELSE PageNo(dec) * 1000 + bs[i]],
          err |-> NilErr]

-----------------------------------------------------------------------------
(* The Reader struct and the options.                                      *)

\* &Reader{reader: bufio.NewReader(r)}: every other field is zero
ZeroReader ==
    [fileType |-> 0, lastUpdate |-> <<0, 0, 0>>, recordsCount |-> 0,
     headerBytesNumber |-> 0, recordBytesNumber |-> 0, fieldsCount |-> 0, fields |-> <<>>,
     decoder |-> NoDecoder, reader |-> 0, currentRecord |-> 0, err |-> NilErr]

\* An Option is a func(*Reader); every option of the package sets r.decoder.
WithDecoder(decoder) == [decoder |-> decoder]
WithEncoding(cm) == WithDecoder(cm)
WithCP866 == WithEncoding("CP866")
WithCP1251 == WithEncoding("CP1251")
WithCP1252 == WithEncoding("CP1252")

\* mutant: the first option wins
ApplyOptionFirstWins(rd, opt) ==
    IF rd.decoder = NoDecoder THEN [rd EXCEPT !.decoder = opt.decoder] ELSE rd

\* opt(reader)
ApplyOption(rd, opt) == [rd EXCEPT !.decoder = opt.decoder]

\* for _, opt := range opts { opt(reader) }
RECURSIVE ApplyOptions(_, _)
ApplyOptions(rd, os) ==
    IF os = <<>> THEN rd ELSE ApplyOptions(ApplyOption(rd, Head(os)), Tail(os))

\* mutant: HiPerSix is missing from the list
isValidFileTypeWithoutHiPerSix(ft) ==
    ft \in {FoxBASE, FoxBASEPlusNoMemo, VisualFoxPro, VisualFoxProAI,
            VisualFoxProVarchar, dBASEIVTF, dBASEIVSF, FoxBASEPlusMemo,
            dBASEIVMemo, dBASEIVTFMemo, FoxPro2}

isValidFileType(ft) ==
    ft \in {FoxBASE, FoxBASEPlusNoMemo, VisualFoxPro, VisualFoxProAI,
            VisualFoxProVarchar, dBASEIVTF, dBASEIVSF, FoxBASEPlusMemo,
            dBASEIVMemo, dBASEIVTFMemo, FoxPro2, HiPerSix}

getDecoderByLDID(ldid) ==
    CASE ldid = 38 -> "CP866"
      [] ldid \in {100, 101, 201} -> "CP1251"
      [] ldid = 3 -> "CP1252"
      [] ldid = 1 -> "CP437"
      [] ldid = 2 -> "CP850"
      [] OTHER -> NoDecoder

\* r.fieldsCount = (r.headerBytesNumber - metadataLength) / fieldLength, in uint16
FieldsCountOf(headerBytesNumber) ==
    ((headerBytesNumber - metadataLength) % Uint16) \div fieldLength

\* readMetadata: the 32-byte header.  Returns the reader and the error; on an
\* error New drops the reader, so the fields set before it are not kept.
readMetadata(rd) ==
    Bind(ReadByte(rd.reader), LAMBDA b :
    IF b.err # NilErr THEN [r |-> rd, err |-> Wrap("read file type", b.err)]
    ELSE IF ~isValidFileType(b.b) THEN [r |-> rd, err |-> <<"unknown file type">>]
    ELSE Bind(ReadFull(b.pos, 3), LAMBDA dateBytes :
    IF dateBytes.err # NilErr
    THEN [r |-> rd, err |-> Wrap("read last update date", dateBytes.err)]
    ELSE Bind(ReadFull(dateBytes.pos, 4), LAMBDA recordsBytes :
    IF recordsBytes.err # NilErr
    THEN [r |-> rd, err |-> Wrap("read records count", recordsBytes.err)]
    ELSE Bind(ReadFull(recordsBytes.pos, 2), LAMBDA headerBytes :
    IF headerBytes.err # NilErr
    THEN [r |-> rd, err |-> Wrap("read header size", headerBytes.err)]
    ELSE Bind(ReadFull(headerBytes.pos, 2), LAMBDA recordBytes :
    IF recordBytes.err # NilErr
    THEN [r |-> rd, err |-> Wrap("read record size", recordBytes.err)]
    ELSE Bind(ReadFull(recordBytes.pos, 20), LAMBDA reserved :
    IF reserved.err # NilErr
    THEN [r |-> rd, err |-> Wrap("read reserved bytes", reserved.err)]
    ELSE [r |-> [rd EXCEPT
                   !.fileType = b.b,
                   \* the arguments of time.Date: year, month, day
                   !.lastUpdate = <<dateBytes.data[1] + 1900, dateBytes.data[2],
                                    dateBytes.data[3]>>,
                   !.recordsCount = LittleEndian(recordsBytes.data),
                   !.headerBytesNumber = LittleEndian(headerBytes.data),
                   !.fieldsCount = FieldsCountOf(LittleEndian(headerBytes.data)),
                   !.recordBytesNumber = LittleEndian(recordBytes.data),
                   !.decoder = IF rd.decoder = NoDecoder
                               THEN getDecoderByLDID(reserved.data[LDIDIndex + 1])
                               ELSE rd.decoder,
                   !.reader = reserved.pos],
          err |-> NilErr]))))))

\* the Field a 32-byte descriptor holds
FieldOf(rd, fb) ==
    Bind(TrimRightNul(SubSeq(fb, 1, 11)), LAMBDA nameBytes :
    Bind(DecoderBytes(rd.decoder, nameBytes), LAMBDA decodedName :
        [Name |-> IF decodedName.err # NilErr THEN nameBytes ELSE decodedName.out,
         Type |-> fb[12],
         MemoryAddress |-> LittleEndian(SubSeq(fb, 13, 16)),
         Length |-> fb[17],
         DecimalCount |-> fb[18]]))

\* readField: one 32-byte field descriptor
readField(rd) ==
    Bind(ReadFull(rd.reader, 32), LAMBDA fieldBytes :
    IF fieldBytes.err # NilErr
    THEN [r |-> rd, field |-> <<>>, err |-> Wrap("read field bytes", fieldBytes.err)]
    ELSE [r |-> [rd EXCEPT !.reader = fieldBytes.pos],
          field |-> FieldOf(rd, fieldBytes.data),
          err |-> NilErr])

\* the loop of readFields, from index i
RECURSIVE readFieldsLoop(_, _)
readFieldsLoop(rd, i) ==
    IF i >= rd.fieldsCount THEN [r |-> rd, err |-> NilErr]
    ELSE Bind(readField(rd), LAMBDA f :
         IF f.err # NilErr THEN [r |-> f.r, err |-> Wrap("read field", f.err)]
         ELSE readFieldsLoop([f.r EXCEPT !.fields = Append(@, f.field)], i + 1))

\* mutant: the stream is taken to stand at the declared header length
readFieldsSkippingToData(rd) ==
    Bind(readFieldsLoop([rd EXCEPT !.fields = <<>>], 0), LAMBDA l :
    IF l.err # NilErr THEN l
    ELSE Bind(ReadByte(l.r.reader), LAMBDA terminator :
         IF terminator.err # NilErr
         THEN [r |-> l.r, err |-> Wrap("read terminator", terminator.err)]
         ELSE IF terminator.b # Terminator
         THEN [r |-> l.r, err |-> <<"invalid field descriptor terminator">>]
         ELSE [r |-> [l.r EXCEPT !.reader = l.r.headerBytesNumber], err |-> NilErr]))

\* readFields: fieldsCount descriptors, then the terminator byte
readFields(rd) ==
    Bind(readFieldsLoop([rd EXCEPT !.fields = <<>>], 0), LAMBDA l :
    IF l.err # NilErr THEN l
    ELSE Bind(ReadByte(l.r.reader), LAMBDA terminator :
         IF terminator.err # NilErr
         THEN [r |-> l.r, err |-> Wrap("read terminator", terminator.err)]
         ELSE IF terminator.b # Terminator
         THEN [r |-> l.r, err |-> <<"invalid field descriptor terminator">>]
         ELSE [r |-> [l.r EXCEPT !.reader = terminator.pos], err |-> NilErr]))

\* New(r io.Reader, opts ...Option) (*Reader, error): reader is <<>> for nil,
\* <<rd>> for a reader
New(os) ==
    Bind(readMetadata(ApplyOptions(ZeroReader, os)), LAMBDA m :
    IF m.err # NilErr THEN [reader |-> <<>>, err |-> Wrap("read metadata", m.err)]
    ELSE IF m.r.decoder = NoDecoder
    THEN [reader |-> <<>>,
          err |-> <<"unable to determine encoding: please specify encoding explicitly">>]
    ELSE Bind(readFields(m.r), LAMBDA f :
         IF f.err # NilErr THEN [reader |-> <<>>, err |-> Wrap("read fields", f.err)]
         ELSE [reader |-> <<f.r>>, err |-> NilErr]))

-----------------------------------------------------------------------------
(* Iteration: Next, Read, ReadAll, Err.                                    *)

\* the value of a Character field (and of a field of unknown type)
CharacterValue(rd, trimmed) ==
    Bind(DecoderBytes(rd.decoder, trimmed), LAMBDA decoded :
        IF decoded.err # NilErr THEN trimmed ELSE decoded.out)

\* mutant: the lower-case letters are not recognised
LogicalValueUpperOnly(trimmed) ==
    IF Len(trimmed) > 0 /\ trimmed[1] \in {Chr.T, Chr.Y} THEN StrTrue
    ELSE IF Len(trimmed) > 0 /\ trimmed[1] \in {Chr.F, Chr.N} THEN StrFalse
    ELSE <<>>

\* the value of a Logical field
LogicalValue(trimmed) ==
    IF Len(trimmed) > 0 /\ trimmed[1] \in {Chr.T, Chr.t, Chr.Y, Chr.y} THEN StrTrue
    ELSE IF Len(trimmed) > 0 /\ trimmed[1] \in {Chr.F, Chr.f, Chr.N, Chr.n} THEN StrFalse
    ELSE <<>>

\* mutant: a transcoding failure is returned as an error
DecodeTrimmedStrict(rd, field, trimmed) ==
    IF field.Type \in {Chr.N, Chr.F, Chr.D, Chr.M} THEN [value |-> trimmed, err |-> NilErr]
    ELSE IF field.Type = Chr.L THEN [value |-> LogicalValue(trimmed), err |-> NilErr]
    ELSE Bind(DecoderBytes(rd.decoder, trimmed), LAMBDA decoded :
             [value |-> decoded.out, err |-> decoded.err])

\* the switch of decodeFieldValue on the trimmed bytes
DecodeTrimmed(rd, field, trimmed) ==
    CASE field.Type = Chr.C -> [value |-> CharacterValue(rd, trimmed), err |-> NilErr]
      [] field.Type \in {Chr.N, Chr.F} -> [value |-> trimmed, err |-> NilErr]
      [] field.Type = Chr.D -> [value |-> trimmed, err |-> NilErr]
      [] field.Type = Chr.L -> [value |-> LogicalValue(trimmed), err |-> NilErr]
      [] field.Type = Chr.M -> [value |-> trimmed, err |-> NilErr]
      [] OTHER -> [value |-> CharacterValue(rd, trimmed), err |-> NilErr]

\* decodeFieldValue: the value and the error (always nil in the code)
decodeFieldValue(rd, field, data) ==
    Bind(TrimSpace(data), LAMBDA trimmed : DecodeTrimmed(rd, field, trimmed))

\* mutant: the comparison is off by one
NextStopsEarly(rd) ==
    IF rd.currentRecord + 1 >= rd.recordsCount
    THEN [r |-> rd, ok |-> FALSE]
    ELSE [r |-> [rd EXCEPT !.currentRecord = @ + 1], ok |-> rd.err = NilErr]

\* mutant: the cursor stays where it is once the sticky error is set
NextKeepsCursorOnError(rd) ==
    IF rd.currentRecord >= rd.recordsCount \/ rd.err # NilErr
    THEN [r |-> rd, ok |-> FALSE]
    ELSE [r |-> [rd EXCEPT !.currentRecord = @ + 1], ok |-> TRUE]

\* Next() bool
Next(rd) ==
    IF rd.currentRecord >= rd.recordsCount
    THEN [r |-> rd, ok |-> FALSE]
    ELSE [r |-> [rd EXCEPT !.currentRecord = @ + 1], ok |-> rd.err = NilErr]

\* record.Data[field.Name] = value
MapPut(m, k, v) == [x \in (DOMAIN m) \cup {k} |-> IF x = k THEN v ELSE m[x]]
EmptyMap == [x \in {} |-> <<>>]

\* mutant: every field is sliced one byte early (the flag byte is not skipped)
RECURSIVE ReadFieldsOfOneEarly(_, _, _, _, _)
ReadFieldsOfOneEarly(rd, recordBytes, i, offset, data) ==
    IF i > Len(rd.fields) THEN [data |-> data, err |-> NilErr, panic |-> FALSE]
    ELSE IF offset + rd.fields[i].Length > Len(recordBytes)
    THEN [data |-> data, err |-> NilErr, panic |-> TRUE]
    ELSE Bind(decodeFieldValue(rd, rd.fields[i],
                   SubSeq(recordBytes, offset, offset + rd.fields[i].Length - 1)),
         LAMBDA v :
             ReadFieldsOfOneEarly(rd, recordBytes, i + 1, offset + rd.fields[i].Length,
                                  MapPut(data, rd.fields[i].Name, v.value)))

\* the field loop of Read from field index i (1-based) at byte offset `offset`;
\* slicing recordBytes[offset : offset+Length] past the buffer panics
RECURSIVE ReadFieldsOf(_, _, _, _, _)
ReadFieldsOf(rd, recordBytes, i, offset, data) ==
    IF i > Len(rd.fields) THEN [data |-> data, err |-> NilErr, panic |-> FALSE]
    ELSE IF offset + rd.fields[i].Length > Len(recordBytes)
    THEN [data |-> data, err |-> NilErr, panic |-> TRUE]
    ELSE Bind(decodeFieldValue(rd, rd.fields[i],
                   SubSeq(recordBytes, offset + 1, offset + rd.fields[i].Length)),
         LAMBDA v :
             IF v.err # NilErr
             THEN [data |-> data, err |-> Wrap("decode field", v.err), panic |-> FALSE]
             ELSE ReadFieldsOf(rd, recordBytes, i + 1, offset + rd.fields[i].Length,
                               MapPut(data, rd.fields[i].Name, v.value)))

\* mutant: every flag other than a space marks a deleted record
DeletedOfNotSpace(recordBytes) == recordBytes[1] # 32

\* Deleted: recordBytes[0] == 0x2A
DeletedOf(recordBytes) == recordBytes[1] = DeletedMark

\* Read past the sticky-error check: read one block and decode it
ReadRecord(rd) ==
    Bind(ReadFull(rd.reader, rd.recordBytesNumber), LAMBDA recordBytes :
    IF recordBytes.err # NilErr
    THEN [r |-> [rd EXCEPT !.reader = recordBytes.pos,
                           !.err = Wrap("read record bytes", recordBytes.err)],
          rec |-> <<>>,
          err |-> Wrap("read record bytes", recordBytes.err),
          panic |-> FALSE]
    ELSE IF Len(recordBytes.data) = 0       \* recordBytes[0] on an empty buffer
    THEN [r |-> [rd EXCEPT !.reader = recordBytes.pos],
          rec |-> <<>>, err |-> NilErr, panic |-> TRUE]
    ELSE Bind(ReadFieldsOf(rd, recordBytes.data, 1, 1, EmptyMap), LAMBDA fs :
    IF fs.panic
    THEN [r |-> [rd EXCEPT !.reader = recordBytes.pos],
          rec |-> <<>>, err |-> NilErr, panic |-> TRUE]
    ELSE IF fs.err # NilErr
    THEN [r |-> [rd EXCEPT !.reader = recordBytes.pos, !.err = fs.err],
          rec |-> <<>>, err |-> fs.err, panic |-> FALSE]
    ELSE [r |-> [rd EXCEPT !.reader = recordBytes.pos],
          rec |-> <<[Deleted |-> DeletedOf(recordBytes.data), Data |-> fs.data]>>,
          err |-> NilErr, panic |-> FALSE]))

\* mutant: no sticky-error check
ReadWithoutStickyCheck(rd) == ReadRecord(rd)

\* mutant: an access outside the record buffer is caught and returned as an error
ReadRecovering(rd) ==
    IF rd.err # NilErr
    THEN [r |-> rd, rec |-> <<>>, err |-> rd.err, panic |-> FALSE]
    ELSE Bind(ReadRecord(rd), LAMBDA x :
             IF x.panic
             THEN [r |-> [x.r EXCEPT !.err = <<"record too short">>], rec |-> <<>>,
                   err |-> <<"record too short">>, panic |-> FALSE]
             ELSE x)

\* mutant: Read advances the cursor itself
ReadAdvancingCursor(rd) ==
    IF rd.err # NilErr
    THEN [r |-> rd, rec |-> <<>>, err |-> rd.err, panic |-> FALSE]
    ELSE Bind(ReadRecord(rd), LAMBDA x : [x EXCEPT !.r.currentRecord = @ + 1])

\* Read() (*Record, error): rec is <<>> for nil, <<record>> for a record;
\* panic is TRUE when the call panics (index or slice out of range)
Read(rd) ==
    IF rd.err # NilErr
    THEN [r |-> rd, rec |-> <<>>, err |-> rd.err, panic |-> FALSE]
    ELSE ReadRecord(rd)

\* mutant: an error that wraps io.EOF counts as the end of the stream too
ErrUnwrapping(rd) ==
    IF rd.err # NilErr /\ rd.err[Len(rd.err)] = "EOF" THEN NilErr ELSE rd.err

\* Err() error
Err(rd) == IF rd.err = EOF THEN NilErr ELSE rd.err

\* the loop of ReadAll, with the records collected so far
RECURSIVE ReadAllLoop(_, _)
ReadAllLoop(rd, records) ==
    Bind(Next(rd), LAMBDA n :
    IF ~n.ok
    THEN [r |-> n.r, records |-> records, err |-> Err(n.r), panic |-> FALSE]
    ELSE Bind(Read(n.r), LAMBDA x :
         IF x.panic THEN [r |-> x.r, records |-> <<>>, err |-> NilErr, panic |-> TRUE]
         ELSE IF x.err # NilErr
         THEN [r |-> x.r, records |-> records, err |-> x.err, panic |-> FALSE]
         ELSE ReadAllLoop(x.r, records \o x.rec)))

\* mutant: the records read before an error are dropped
ReadAllDroppingPartial(rd) ==
    Bind(ReadAllLoop(rd, <<>>), LAMBDA a :
        IF a.err # NilErr THEN [a EXCEPT !.records = <<>>] ELSE a)

\* ReadAll() ([]*Record, error)
ReadAll(rd) == ReadAllLoop(rd, <<>>)

-----------------------------------------------------------------------------
(* Input files: the layout of a DBF file, as the tests build it.           *)

RECURSIVE LE(_, _)
LE(n, k) == IF k = 0 THEN <<>> ELSE <<n % 256>> \o LE(n \div 256, k - 1)

Zeros(n) == [i \in 1..n |-> 0]

MkHeader(ft, rc, h, rl, ldid) ==
    <<ft, 124, 1, 15>> \o LE(rc, 4) \o LE(h, 2) \o LE(rl, 2)
        \o [i \in 1..20 |-> IF i = LDIDIndex + 1 THEN ldid ELSE 0]

MkDescriptor(name, type, len) ==
    name \o Zeros(11 - Len(name)) \o <<type>> \o Zeros(4) \o <<len, 0>> \o Zeros(14)

RECURSIVE Concat(_)
Concat(ss) == IF ss = <<>> THEN <<>> ELSE Head(ss) \o Concat(Tail(ss))

RECURSIVE Sum(_)
Sum(ns) == IF ns = <<>> THEN 0 ELSE Head(ns) + Sum(Tail(ns))

\* the type of the i-th field of a generated schema, and its name ("A", "B", ...)
TypeCycle == <<Chr.C, Chr.L, Chr.N, Chr.X, Chr.D, Chr.M>>
TypeOfField(i) == TypeCycle[((i - 1) % Len(TypeCycle)) + 1]
NameOfField(i) == <<64 + i>>

MkSchema(lens) ==
    Concat([i \in 1..Len(lens) |-> MkDescriptor(NameOfField(i), TypeOfField(i), lens[i])])

\* record bodies: block i has a deletion flag and varied field bytes
FlagCycle == <<32, DeletedMark, 0>>
ContentCycle == <<Chr.T, 32, Chr.f, 200, Chr.X, 9>>
MkBlock(i, rl, seed) ==
    [j \in 1..rl |-> IF j = 1 THEN FlagCycle[((i + seed) % 3) + 1]
                     ELSE ContentCycle[((3 * i + j + seed) % 6) + 1]]
MkBody(nblocks, rl, seed) == Concat([i \in 1..nblocks |-> MkBlock(i, rl, seed)])

Prefix(bs, n) == SubSeq(bs, 1, Min(n, Len(bs)))

\* Files for iteration: a valid header and schema, rc declared records, a
\* record length that matches the schema or is off by one, and a body that
\* holds `blocks` whole blocks and `partial` further bytes.
Schemas == UNION {[1..n -> 0..MaxFieldLen] : n \in 0..MaxFields}
IterInputs ==
    { [stream |-> MkHeader(FoxBASEPlusNoMemo, rc, 32 + 32 * Len(lens) + 1, rl, 0)
                    \o MkSchema(lens) \o <<Terminator>>
                    \o Prefix(MkBody(blocks + 1, rl, (rc + blocks + Sum(lens)) % 3),
                              blocks * rl + partial),
       opts |-> <<WithCP866>>] :
         <<lens, rc, rl, blocks, partial>> \in
            { x \in Schemas \X (0..MaxRecords) \X (0..(2 + MaxFields * MaxFieldLen))
                      \X (0..(MaxRecords + 1)) \X {0, 1} :
                /\ x[3] \in {Sum(x[1]), Sum(x[1]) + 1, Sum(x[1]) + 2}
                /\ x[4] <= x[2] + 1
                /\ x[5] < x[3] \/ x[5] = 0 } }

\* Files whose single record starts with each possible byte.
FlagInputs ==
    { [stream |-> MkHeader(FoxBASEPlusNoMemo, 1, 32 + 32 + 1, 2, 0)
                    \o MkSchema(<<1>>) \o <<Terminator>> \o <<flag, Chr.X>>,
       opts |-> <<WithCP866>>] : flag \in Byte }

\* Files whose declared header length h is not 32 + 32*n + 1 although n
\* descriptors and the terminator follow the header: the division by 32 drops
\* the remainder.  Two records, two whole blocks, a caller-supplied decoder.
OffsetInputs ==
    { [stream |-> MkHeader(FoxBASEPlusNoMemo, 2, 32 + 32 * n + rem, 1 + n, 0)
                    \o MkSchema([i \in 1..n |-> 1]) \o <<Terminator>>
                    \o MkBody(2, 1 + n, rem % 3),
       opts |-> <<WithDecoder("strict")>>] :
         <<n, rem>> \in (0..MaxFields) \X {0, 1, 2, 31} }

\* Files with one record of one 2-byte field, for every kind of type tag, a
\* code page or a decoder that can fail, and field bytes with and without
\* bytes >= 0x80; whole, or cut one byte short.
TypeTags == {Chr.C, Chr.N, Chr.F, Chr.D, Chr.L, Chr.M, Chr.X, 0, 255}
TypeInputs ==
    { [stream |-> Prefix(MkHeader(FoxBASEPlusNoMemo, 1, 32 + 32 + 1, 3, 38)
                            \o MkDescriptor(NameOfField(1), x[1], 2) \o <<Terminator>>
                            \o <<32>> \o x[3],
                         32 + 32 + 1 + 3 - x[4]),
       opts |-> x[2]] :
         x \in TypeTags \X {<<>>, <<WithDecoder("strict")>>}
                 \X {<<200, 32>>, <<Chr.t, 200>>, <<32, 9>>} \X {0, 1} }

\* Files for New.  Every first byte, on an otherwise valid file:
BaseFile(ft, ldid) ==
    MkHeader(ft, 1, 32 + 32 + 1, 2, ldid) \o MkSchema(<<1>>) \o <<Terminator>>
        \o MkBlock(1, 2, 0)

TagInputs == { [stream |-> BaseFile(ft, 0), opts |-> <<WithCP866>>] : ft \in Byte }

\* every language driver ID without options, and the sampled ones under every
\* sequence of up to MaxOpts options:
Options == {WithCP866, WithCP1251, WithCP1252, WithEncoding("CP437"), WithDecoder("strict")}
OptionSeqs == UNION {[1..n -> Options] : n \in 0..MaxOpts}
LDIDSamples == {0, 1, 2, 3, 38, 100, 101, 201, 255}
EncodingInputs ==
    { [stream |-> BaseFile(FoxBASEPlusNoMemo, ldid), opts |-> <<>>] : ldid \in Byte }
    \cup { [stream |-> BaseFile(FoxBASEPlusNoMemo, x[1]), opts |-> x[2]] :
              x \in LDIDSamples \X OptionSeqs }

\* headers whose declared length h need not match the nf descriptors that
\* follow, good and bad terminators, cut after any number of bytes:
HeaderLens == {0, 31, 32, 33, 64, 65, 66, 96, 97, 129, 65535}
LayoutFile(ft, ldid, h, nf, term) ==
    MkHeader(ft, 1, h, 1 + nf, ldid) \o MkSchema([i \in 1..nf |-> 1]) \o <<term>>
        \o MkBlock(1, 1 + nf, 0)
LayoutInputs ==
    { [stream |-> Prefix(LayoutFile(x[1], x[2], x[3], x[4], x[5]), x[6]), opts |-> <<>>] :
         x \in { y \in {FoxBASEPlusNoMemo, 255} \X {38, 255} \X HeaderLens \X (0..MaxFields)
                        \X {Terminator, 0} \X (0..(35 + 33 * MaxFields)) :
                    y[6] <= 34 + 33 * y[4] } }

NewInputs == TagInputs \cup EncodingInputs \cup LayoutInputs

-----------------------------------------------------------------------------
(* The state machine: New, then any interleaving of Next, Read, ReadAll    *)
(* and Err by the single caller.  A panic ends the run.                    *)

NoRet == [ok |-> FALSE, rec |-> <<>>, records |-> <<>>, err |-> NilErr, val |-> <<>>]

\* obs records what the properties need of the past:
\*   dataStart  bytes consumed when New returned
\*   reads      Reads that passed the sticky-error check (ReadAll's included)
\*   okReads    Reads that returned a record (ReadAll's included)
\*   blockAt    bytes consumed before the last call of Read
\*   pending    the operation before this one was a Next that returned true
\*   readAfterNext  the last Read directly followed a Next that returned true
\*   stuck      the last Read found the sticky error set
\*   touched    Next, Read or ReadAll has been called
\*   freshAll   the last ReadAll was called on an untouched reader
\*   failedErr  the error of the first Read that failed
\*   nextTrue   calls of Next that returned true (ReadAll's included)
\*   allDone, allErr  a ReadAll has returned, and the error the last one returned
\*   loop, got  the position in `for r.Next() { r.Read() }` run from a fresh
\*              reader with nothing else in between ("off" once the caller
\*              left that pattern) and the records its Reads returned
NoObs ==
    [dataStart |-> 0, reads |-> 0, okReads |-> 0, blockAt |-> 0, pending |-> FALSE,
     readAfterNext |-> FALSE, stuck |-> FALSE, touched |-> FALSE, freshAll |-> FALSE,
     failedErr |-> NilErr, nextTrue |-> 0, allDone |-> FALSE, allErr |-> NilErr,
     loop |-> "next", got |-> <<>>]

InitWith(inputs) ==
    /\ \E in \in inputs : stream = in.stream /\ opts = in.opts
    /\ phase = "start"
    /\ r = ZeroReader
    /\ newErr = NilErr
    /\ lastOp = "none"
    /\ lastRet = NoRet
    /\ obs = NoObs

Init == InitWith(IterInputs \cup FlagInputs \cup OffsetInputs \cup TypeInputs)

CallNew ==
    /\ phase = "start"
    /\ \E n \in {New(opts)} :
        /\ phase' = IF n.reader # <<>> THEN "open" ELSE "failed"
        /\ r' = IF n.reader # <<>> THEN n.reader[1] ELSE ZeroReader
        /\ newErr' = n.err
        /\ lastRet' = [NoRet EXCEPT !.ok = n.reader # <<>>, !.err = n.err]
        /\ obs' = [obs EXCEPT !.dataStart = IF n.reader # <<>> THEN n.reader[1].reader ELSE 0]
    /\ lastOp' = "New"
    /\ UNCHANGED <<stream, opts>>

CallNext ==
    /\ phase = "open"
    /\ \E n \in {Next(r)} :
        /\ r' = n.r
        /\ lastRet' = [NoRet EXCEPT !.ok = n.ok]
        /\ obs' = [obs EXCEPT
                     !.pending = n.ok,
                     !.touched = TRUE,
                     !.nextTrue = IF n.ok THEN @ + 1 ELSE @,
                     !.loop = IF obs.loop = "next"
                              THEN (IF n.ok THEN "read" ELSE "done") ELSE "off",
                     !.got = IF obs.loop = "next" THEN @ ELSE <<>>]
    /\ lastOp' = "Next"
    /\ UNCHANGED <<stream, opts, phase, newErr>>

CallRead ==
    /\ phase = "open"
    /\ \E x \in {Read(r)} :
        /\ r' = x.r
        /\ phase' = IF x.panic THEN "panicked" ELSE phase
        /\ lastRet' = [NoRet EXCEPT !.rec = x.rec, !.err = x.err]
        /\ obs' = [obs EXCEPT
                     !.reads = IF r.err = NilErr THEN @ + 1 ELSE @,
                     !.okReads = @ + Len(x.rec),
                     !.blockAt = r.reader,
                     !.pending = FALSE,
                     !.readAfterNext = obs.pending,
                     !.stuck = r.err # NilErr,
                     !.touched = TRUE,
                     !.failedErr = IF @ = NilErr THEN x.err ELSE @,
                     !.loop = IF obs.loop = "read" /\ ~x.panic THEN "next" ELSE "off",
                     !.got = IF obs.loop = "read" /\ ~x.panic THEN @ \o x.rec ELSE <<>>]
    /\ lastOp' = "Read"
    /\ UNCHANGED <<stream, opts, newErr>>

CallReadAll ==
    /\ phase = "open"
    /\ \E a \in {ReadAll(r)} :
        /\ r' = a.r
        /\ phase' = IF a.panic THEN "panicked" ELSE phase
        /\ lastRet' = [NoRet EXCEPT !.records = a.records, !.err = a.err]
        /\ obs' = [obs EXCEPT
                     !.reads = @ + Len(a.records)
                                 + (IF a.panic \/ (r.err = NilErr /\ a.r.err # NilErr)
                                    THEN 1 ELSE 0),
                     !.okReads = @ + Len(a.records),
                     !.pending = FALSE,
                     !.touched = TRUE,
                     !.freshAll = ~obs.touched,
                     !.failedErr = IF @ = NilErr THEN a.r.err ELSE @,
                     !.nextTrue = @ + Len(a.records)
                                    + (IF a.panic \/ (r.err = NilErr /\ a.r.err # NilErr)
                                       THEN 1 ELSE 0),
                     !.allDone = @ \/ ~a.panic,
                     !.allErr = IF a.panic THEN @ ELSE a.err,
                     !.loop = "off",
                     !.got = <<>>]
    /\ lastOp' = "ReadAll"
    /\ UNCHANGED <<stream, opts, newErr>>

CallErr ==
    /\ phase = "open"
    /\ lastRet' = [NoRet EXCEPT !.err = Err(r)]
    /\ obs' = [obs EXCEPT !.pending = FALSE]
    /\ lastOp' = "Err"
    /\ UNCHANGED <<stream, opts, phase, r, newErr>>

\* the header accessors: FileType, LastUpdate, RecordsCount, Fields, FieldsCount
CallAccessors ==
    /\ phase = "open"
    /\ lastRet' = [NoRet EXCEPT !.val = <<r.fileType, r.lastUpdate, r.recordsCount,
                                          r.fields, Len(r.fields)>>]
    /\ obs' = [obs EXCEPT !.pending = FALSE]
    /\ lastOp' = "Accessors"
    /\ UNCHANGED <<stream, opts, phase, r, newErr>>

Next_ == CallNew \/ CallNext \/ CallRead \/ CallReadAll \/ CallErr \/ CallAccessors

Spec == Init /\ [][Next_]_vars

\* the same machine over the files that exercise New
InitNew == InitWith(NewInputs)
SpecNew == InitNew /\ [][Next_]_vars

-----------------------------------------------------------------------------
(* readMetadata and New as functions of the header: every 16-bit header    *)
(* length on a header followed by the terminator, and the layouts with     *)
(* descriptors.                                                            *)

HeaderInputs ==
    { [stream |-> MkHeader(FoxBASEPlusNoMemo, 0, h, 1, 38) \o <<Terminator>>,
       opts |-> <<>>] : h \in 0..(Uint16 - 1) }
    \cup { [stream |-> LayoutFile(FoxBASEPlusNoMemo, 38, x[1], x[2], Terminator),
            opts |-> <<>>] : x \in HeaderLens \X (0..MaxFields) }

InitHeader == InitWith(HeaderInputs)

CallReadMetadata ==
    /\ phase = "start"
    /\ \E m \in {readMetadata(ApplyOptions(ZeroReader, opts))} :
        /\ r' = m.r
        /\ lastRet' = [NoRet EXCEPT !.ok = (m.err = NilErr), !.err = m.err]
    /\ phase' = "header"
    /\ lastOp' = "readMetadata"
    /\ UNCHANGED <<stream, opts, newErr, obs>>

NextHeader == CallReadMetadata \/ CallNew
SpecHeader == InitHeader /\ [][NextHeader]_vars

-----------------------------------------------------------------------------
(* decodeFieldValue as a function of the field type, the decoder and the   *)
(* field's bytes.                                                          *)

DataAlphabet ==
    {32, 9, Chr.T, Chr.t, Chr.Y, Chr.y, Chr.F, Chr.f, Chr.N, Chr.n, Chr.X, 194, 160}
DataInputs == UNION {[1..n -> DataAlphabet] : n \in 0..MaxDataLen}
DecodeKinds ==
    {<<Chr.L, "CP866">>, <<Chr.C, "CP866">>, <<Chr.C, "strict">>, <<Chr.X, "strict">>,
     <<Chr.N, "CP866">>, <<Chr.F, "CP866">>, <<Chr.D, "CP866">>, <<Chr.M, "strict">>}

InitDecode ==
    /\ stream \in DataInputs
    /\ \E k \in DecodeKinds :
          r = [ZeroReader EXCEPT
                 !.decoder = k[2],
                 !.fields = <<[Name |-> NameOfField(1), Type |-> k[1], MemoryAddress |-> 0,
                               Length |-> Len(stream), DecimalCount |-> 0]>>]
    /\ opts = <<>>
    /\ phase = "decode"
    /\ newErr = NilErr
    /\ lastOp = "none"
    /\ lastRet = NoRet
    /\ obs = NoObs

CallDecodeFieldValue ==
    /\ phase = "decode"
    /\ \E v \in {decodeFieldValue(r, r.fields[1], stream)} :
          lastRet' = [NoRet EXCEPT !.rec = <<v.value>>, !.err = v.err]
    /\ phase' = "decoded"
    /\ lastOp' = "decodeFieldValue"
    /\ UNCHANGED <<stream, opts, r, newErr, obs>>

NextDecode == CallDecodeFieldValue
SpecDecode == InitDecode /\ [][NextDecode]_vars

-----------------------------------------------------------------------------
(* What the file format prescribes, stated from the stream alone.          *)

RecordCount == r.recordsCount
RecordLen == r.recordBytesNumber
Lengths == [i \in 1..Len(r.fields) |-> r.fields[i].Length]

\* the i-th recordByteLength-byte block after the schema
Block(i) ==
    SubSeq(stream, obs.dataStart + (i - 1) * RecordLen + 1, obs.dataStart + i * RecordLen)

\* the number of whole blocks the stream holds
FullBlocks == IF RecordLen = 0 THEN 0 ELSE (Len(stream) - obs.dataStart) \div RecordLen

\* the bytes of field f in a block
FieldBytes(block, f) ==
    SubSeq(block, 1 + Sum(SubSeq(Lengths, 1, f - 1)) + 1, 1 + Sum(SubSeq(Lengths, 1, f)))

\* the record the i-th block holds
ExpectedRecord(i) ==
    [Deleted |-> Block(i)[1] = 42,
     Data |-> [name \in {r.fields[f].Name : f \in 1..Len(r.fields)} |->
                 decodeFieldValue(r,
                     r.fields[CHOOSE f \in 1..Len(r.fields) : r.fields[f].Name = name],
                     FieldBytes(Block(i),
                         CHOOSE f \in 1..Len(r.fields) : r.fields[f].Name = name)).value]]

ExpectedRecords(from, to) == [i \in 1..(to - from + 1) |-> ExpectedRecord(from + i - 1)]

\* the record length matches the schema and the body holds every declared record
WellFormed ==
    /\ phase = "open"
    /\ RecordLen = 1 + Sum(Lengths)
    /\ Len(stream) - obs.dataStart >= RecordCount * RecordLen

\* the input ends before recordCount whole records
InputShort == phase = "open" /\ Len(stream) - obs.dataStart < RecordCount * RecordLen

-----------------------------------------------------------------------------
(* C1.  On a well-formed input a fresh reader yields exactly recordCount   *)
(* records, in stream order and without an error, through ReadAll and      *)
(* through the loop `for Next() { Read() }`; zero declared records give an *)
(* empty result and a nil error.                                           *)
C1_AllRecords ==
    WellFormed =>
        /\ (lastOp = "ReadAll" /\ obs.freshAll) =>
              /\ lastRet.err = NilErr
              /\ lastRet.records = ExpectedRecords(1, RecordCount)
        /\ obs.loop = "done" =>
              /\ obs.got = ExpectedRecords(1, RecordCount)
              /\ r.err = NilErr
              /\ Err(r) = NilErr

C1_Witness ==
    /\ WellFormed
    /\ obs.loop = "done"
    /\ Len(obs.got) >= 2
    /\ Len(r.fields) >= 2
    /\ obs.got[1] # obs.got[2]

(* C2.  The error is sticky: once a Read has failed, every later step      *)
(* keeps that error and the stream position, and every later Read returns  *)
(* that same error and no record.                                          *)
C2_Sticky ==
    [][obs.failedErr # NilErr =>
          /\ r'.err = obs.failedErr
          /\ r'.reader = r.reader
          /\ obs'.failedErr = obs.failedErr
          /\ lastOp' = "Read" => (lastRet'.rec = <<>> /\ lastRet'.err = obs.failedErr)
          /\ lastOp' = "ReadAll" => (lastRet'.records = <<>> /\ lastRet'.err = obs.failedErr)
      ]_vars

C2_Witness ==
    /\ lastOp = "Read"
    /\ obs.stuck
    /\ lastRet.err = obs.failedErr
    /\ obs.okReads >= 1
    /\ r.currentRecord < RecordCount

(* C3.  After the streaming loop, Err() is non-nil whenever the input ended *)
(* before recordCount whole records (also when it ends on a record         *)
(* boundary, where the failing read meets a plain end of stream), and nil  *)
(* when all recordCount Reads succeeded.                                   *)
C3_ErrAfterLoop ==
    (phase = "open" /\ lastOp = "Err" /\ obs.loop = "done") =>
        /\ InputShort => lastRet.err # NilErr
        /\ Len(obs.got) = RecordCount => lastRet.err = NilErr

C3_Witness ==
    /\ phase = "open" /\ lastOp = "Err" /\ obs.loop = "done"
    /\ InputShort
    /\ Len(stream) = obs.dataStart + FullBlocks * RecordLen
    /\ r.err = Wrap("read record bytes", EOF)
    /\ lastRet.err # NilErr

(* C4.  When ReadAll on a fresh reader meets a failing Read at the k-th    *)
(* record, it returns exactly the k-1 records before it, in stream order,  *)
(* with the error.                                                         *)
C4_PartialResults ==
    (phase = "open" /\ lastOp = "ReadAll" /\ obs.freshAll /\ lastRet.err # NilErr) =>
        /\ FullBlocks < RecordCount
        /\ lastRet.records = ExpectedRecords(1, FullBlocks)
        /\ lastRet.err = r.err

C4_Witness ==
    /\ phase = "open" /\ lastOp = "ReadAll" /\ obs.freshAll
    /\ lastRet.err # NilErr
    /\ Len(lastRet.records) >= 1
    /\ RecordCount > Len(lastRet.records)
    /\ Len(r.fields) >= 1

\* The outcome the file layout prescribes for New, from the stream and the
\* options alone.
KnownTags == {2, 3, 48, 49, 50, 67, 99, 131, 139, 203, 245, 229}
LocaleTable ==
    [x \in {38, 100, 101, 201, 3, 1, 2} |->
        CASE x = 38 -> "CP866" [] x \in {100, 101, 201} -> "CP1251"
          [] x = 3 -> "CP1252" [] x = 1 -> "CP437" [] x = 2 -> "CP850"]
HeaderLen == stream[9] + 256 * stream[10]       \* meaningful when Len(stream) >= 32
LocaleId == stream[30]
DeclaredFields == ((HeaderLen - 32) % 65536) \div 32
EncodingMsg == "unable to determine encoding: please specify encoding explicitly"

\* the kind of an error New returns: its innermost message
ErrKind(err) ==
    IF err = NilErr THEN "nil"
    ELSE IF err[Len(err)] \in {"EOF", "unexpected EOF"} THEN "read"
    ELSE err[Len(err)]

ExpectedNewOutcome ==
    IF Len(stream) >= 1 /\ stream[1] \notin KnownTags THEN "unknown file type"
    ELSE IF Len(stream) < 32 THEN "read"
    ELSE IF opts = <<>> /\ LocaleId \notin DOMAIN LocaleTable THEN EncodingMsg
    ELSE IF Len(stream) - 32 < 32 * DeclaredFields + 1 THEN "read"
    ELSE IF stream[32 + 32 * DeclaredFields + 1] # 13
    THEN "invalid field descriptor terminator"
    ELSE "nil"

(* C5.  New returns a reader and no error, or no reader and an error, and  *)
(* its outcome is decided in this order: unknown file type, short header,  *)
(* undetermined encoding, short schema, invalid terminator, success.       *)
C5_NewOutcome ==
    lastOp = "New" =>
        /\ lastRet.ok <=> lastRet.err = NilErr
        /\ (phase = "open") <=> lastRet.ok
        /\ ErrKind(lastRet.err) = ExpectedNewOutcome

C5_Witness ==
    /\ lastOp = "New"
    /\ Len(stream) >= 32
    /\ stream[1] \in KnownTags
    /\ opts = <<>> /\ LocaleId \notin DOMAIN LocaleTable
    /\ Len(stream) - 32 >= 32 * DeclaredFields + 1
    /\ stream[32 + 32 * DeclaredFields + 1] # 13
    /\ ~lastRet.ok
    /\ lastRet.err = <<EncodingMsg>>

C7_ReadNeedsNext ==
    (phase = "open" /\ lastOp = "Read" /\ ~obs.readAfterNext) =>
        (lastRet.rec = <<>> /\ lastRet.err # NilErr)

(* C8.  A record Read returns has Deleted = TRUE exactly when the first    *)
(* byte of its block is 0x2A; no value of that byte makes Read fail.       *)
C8_DeletedFlag ==
    (phase = "open" /\ lastOp = "Read" /\ ~obs.stuck) =>
        /\ lastRet.rec # <<>> =>
              lastRet.rec[1].Deleted = (stream[obs.blockAt + 1] = 42)
        /\ (RecordLen >= 1 /\ Len(stream) - obs.blockAt >= RecordLen) =>
              (lastRet.rec # <<>> /\ lastRet.err = NilErr)

C8_Witness ==
    /\ phase = "open" /\ lastOp = "Read"
    /\ lastRet.rec # <<>>
    /\ lastRet.rec[1].Deleted
    /\ stream[obs.blockAt + 1] = 42

\* the first byte left after trimming white space from both ends, or -1
FirstAfterTrim(data) == IF TrimSpace(data) = <<>> THEN -1 ELSE TrimSpace(data)[1]

(* C9.  The value of a field of type 'L' depends only on the first byte    *)
(* left after trimming white space: T, t, Y, y give "true"; F, f, N, n     *)
(* give "false"; any other byte, or nothing left, gives ""; it never fails. *)
C9_Logical ==
    (lastOp = "decodeFieldValue" /\ r.fields[1].Type = 76) =>
        /\ lastRet.err = NilErr
        /\ lastRet.rec[1] =
              CASE FirstAfterTrim(stream) \in {84, 116, 89, 121} -> <<116, 114, 117, 101>>
                [] FirstAfterTrim(stream) \in {70, 102, 78, 110} -> <<102, 97, 108, 115, 101>>
                [] OTHER -> <<>>

C9_Witness ==
    /\ lastOp = "decodeFieldValue" /\ r.fields[1].Type = 76
    /\ Len(stream) = 3
    /\ stream[1] = 32 /\ stream[2] = 121 /\ stream[3] = 70
    /\ lastRet.rec[1] = <<116, 114, 117, 101>>

(* C10.  A Read that directly follows a Next that returned true and left   *)
(* the cursor at k returns the k-th record of the body.                    *)
C10_ReadsCurrent ==
    (WellFormed /\ lastOp = "Read" /\ obs.readAfterNext /\ lastRet.rec # <<>>) =>
        lastRet.rec[1] = ExpectedRecord(r.currentRecord)

C12_NextCursor ==
    /\ [](phase \in {"open", "panicked"} =>
            /\ 0 <= r.currentRecord /\ r.currentRecord <= r.recordsCount
            /\ obs.nextTrue <= r.recordsCount)
    /\ [][/\ lastOp' = "New" => r'.currentRecord = 0
          /\ phase = "open" => r'.currentRecord >= r.currentRecord
          /\ lastOp' = "Next" =>
                IF r.currentRecord >= r.recordsCount
                THEN ~lastRet'.ok /\ r'.currentRecord = r.currentRecord
                ELSE /\ r'.currentRecord = r.currentRecord + 1
                     /\ lastRet'.ok <=> r.err = NilErr
         ]_vars

C12_Witness ==
    /\ phase = "open" /\ lastOp = "Next"
    /\ ~lastRet.ok
    /\ r.err # NilErr
    /\ r.currentRecord = r.recordsCount
    /\ r.currentRecord = obs.nextTrue + 1

\* a / b with the remainder discarded
TruncDiv(a, b) == IF a >= 0 THEN a \div b ELSE -((-a) \div b)

(* C13.  For every 16-bit header length h the derived field count is       *)
(* (h - 32) / 32 with the remainder discarded, and every reader New        *)
(* returns has parsed that many field descriptors, followed by 0x0D.       *)
C13_FieldCount ==
    /\ (lastOp = "readMetadata" /\ lastRet.ok) =>
          r.fieldsCount = TruncDiv(HeaderLen - 32, 32)
    /\ (lastOp = "New" /\ lastRet.ok) =>
          /\ r.fieldsCount = TruncDiv(HeaderLen - 32, 32)
          /\ Len(r.fields) = r.fieldsCount
          /\ stream[32 + 32 * Len(r.fields) + 1] = 13

(* C14.  The stream is read strictly forward: a successful New has         *)
(* consumed 32 header bytes, 32 bytes per field and the terminator byte,   *)
(* whatever header length the header declares, and the i-th successful     *)
(* Read decodes the i-th consecutive recordByteLength-byte block after     *)
(* that offset.                                                            *)
C14_ForwardOnly ==
    phase \in {"open", "panicked"} =>
        /\ Len(r.fields) = DeclaredFields
        /\ obs.dataStart = 32 + 32 * Len(r.fields) + 1
        /\ (lastOp = "Read" /\ lastRet.rec # <<>>) =>
              /\ obs.blockAt = obs.dataStart + (obs.okReads - 1) * RecordLen
              /\ r.reader = obs.blockAt + RecordLen
              /\ lastRet.rec[1] = ExpectedRecord(obs.okReads)

C14_Witness ==
    /\ phase = "open" /\ lastOp = "Read"
    /\ lastRet.rec # <<>>
    /\ obs.okReads = 2
    /\ Len(r.fields) >= 1
    /\ HeaderLen > obs.dataStart
    /\ obs.blockAt = obs.dataStart + RecordLen
    /\ lastRet.rec[1] # ExpectedRecord(1)

\* the block the last Read consumed, and the offset of field i in a block
LastBlock == SubSeq(stream, obs.blockAt + 1, obs.blockAt + RecordLen)
OffsetOfField(i) == 1 + Sum(SubSeq(Lengths, 1, i - 1))
UniqueNames ==
    \A i, j \in 1..Len(r.fields) : r.fields[i].Name = r.fields[j].Name => i = j

(* C15.  A record Read returns has one entry per field, and the value      *)
(* under the name of field i is decoded from exactly the bytes of the      *)
(* block at offsets 1 + (lengths of the fields before i) up to, not        *)
(* including, 1 + (lengths of the fields up to i).                         *)
C15_FieldSlices ==
    (phase = "open" /\ lastOp = "Read" /\ lastRet.rec # <<>> /\ UniqueNames) =>
        /\ DOMAIN lastRet.rec[1].Data = {r.fields[i].Name : i \in 1..Len(r.fields)}
        /\ Cardinality(DOMAIN lastRet.rec[1].Data) = Len(r.fields)
        /\ \A i \in 1..Len(r.fields) :
              lastRet.rec[1].Data[r.fields[i].Name] =
                  decodeFieldValue(r, r.fields[i],
                      SubSeq(LastBlock, OffsetOfField(i) + 1,
                             OffsetOfField(i) + r.fields[i].Length)).value

C15_Witness ==
    /\ phase = "open" /\ lastOp = "Read" /\ lastRet.rec # <<>>
    /\ Len(r.fields) = 2
    /\ r.fields[1].Length = 2 /\ r.fields[2].Length = 1
    /\ OffsetOfField(2) = 3
    /\ lastRet.rec[1].Data[r.fields[1].Name] = TrimSpace(<<LastBlock[2], LastBlock[3]>>)
    /\ lastRet.rec[1].Data[r.fields[1].Name] # <<>>
    /\ lastRet.rec[1].Data[r.fields[2].Name] = StrFalse
    /\ LastBlock[4] = 102

\* the raw bytes of field i of the block the last Read consumed, trimmed
RawTrimmed(i) ==
    TrimSpace(SubSeq(LastBlock, OffsetOfField(i) + 1, OffsetOfField(i) + r.fields[i].Length))

\* the decoder in use cannot transcode bs
CannotTranscode(bs) == r.decoder = "strict" /\ \E k \in 1..Len(bs) : bs[k] >= 128

ShortRead == {<<"read record bytes", "EOF">>, <<"read record bytes", "unexpected EOF">>}

(* C16.  Decoding a field never fails: whatever the type tag and the bytes, *)
(* a Read that got its recordByteLength bytes returns a record, and a      *)
(* value the decoder cannot transcode is the raw trimmed bytes.  Read      *)
(* returns an error, and the sticky error is set, only by a short read of  *)
(* the record's bytes.                                                     *)
C16_DecodeNeverFails ==
    /\ phase \in {"open", "panicked"} => r.err \in {NilErr} \cup ShortRead
    /\ (phase = "open" /\ lastOp = "Read" /\ ~obs.stuck) =>
          /\ lastRet.err # NilErr <=> Len(stream) - obs.blockAt < RecordLen
          /\ lastRet.err = r.err
          /\ lastRet.rec # <<>> <=> lastRet.err = NilErr
          /\ lastRet.rec # <<>> =>
                \A i \in 1..Len(r.fields) :
                    (r.fields[i].Type \notin {78, 70, 68, 76, 77} /\ CannotTranscode(RawTrimmed(i)))
                        => lastRet.rec[1].Data[r.fields[i].Name] = RawTrimmed(i)

C16_Witness ==
    /\ phase = "open" /\ lastOp = "Read" /\ lastRet.rec # <<>>
    /\ Len(r.fields) = 1
    /\ r.fields[1].Type = 255
    /\ CannotTranscode(RawTrimmed(1))
    /\ lastRet.rec[1].Data[r.fields[1].Name] = <<200>>
    /\ r.err = NilErr

(* C17.  New accepts a header whatever its record length is, also 0 or     *)
(* less than 1 + the sum of the field lengths.  A Read that gets its       *)
(* recordByteLength bytes accesses the record buffer outside its bounds    *)
(* (and panics) exactly when recordByteLength < 1 + the sum of the field   *)
(* lengths; otherwise every access stays inside the buffer.                *)
C17_OutOfBounds ==
    /\ (lastOp = "New" /\ ExpectedNewOutcome = "nil") => lastRet.ok
    /\ phase = "panicked" => RecordLen < 1 + Sum(Lengths)
    /\ (lastOp = "Read" /\ ~obs.stuck /\ Len(stream) - obs.blockAt >= RecordLen) =>
          (phase = "panicked" <=> RecordLen < 1 + Sum(Lengths))

C17_Witness ==
    /\ phase = "panicked" /\ lastOp = "Read"
    /\ Len(r.fields) = 2
    /\ RecordLen >= 2
    /\ RecordLen = Sum(Lengths)
    /\ Len(stream) - obs.blockAt >= RecordLen
    /\ lastRet.rec = <<>> /\ lastRet.err = NilErr

\* Next changes only the cursor, Read leaves the cursor, Err and the header
\* accessors change nothing, and nothing changes the stream.
FrameStep ==
    /\ lastOp' = "Next" =>
          /\ r'.reader = r.reader
          /\ r'.err = r.err
          /\ r' = [r EXCEPT !.currentRecord = r'.currentRecord]
    /\ lastOp' = "Read" => r'.currentRecord = r.currentRecord
    /\ lastOp' \in {"Err", "Accessors"} => r' = r
    /\ stream' = stream

(* C18 (as stated).  Next never reads from the stream and never touches    *)
(* the sticky error, Read never changes the cursor, Err and the header     *)
(* accessors change nothing; so the number of record blocks consumed from  *)
(* the stream equals the number of Reads that passed the sticky-error      *)
(* check, however often Next was called.                                   *)
C18_BlocksEqualReads ==
    /\ [][FrameStep]_vars
    /\ [](phase \in {"open", "panicked"} =>
            r.reader = obs.dataStart + obs.reads * RecordLen)

(* C18 (amended).  The same frame conditions; the number of record blocks  *)
(* consumed equals the number of Reads that passed the sticky-error check  *)
(* as long as none of them failed, and the one Read that fails on a short  *)
(* read consumes what is left of the stream instead of a block.            *)
C18_Frame ==
    /\ [][FrameStep]_vars
    /\ [](phase \in {"open", "panicked"} =>
            /\ r.err = NilErr => r.reader = obs.dataStart + obs.reads * RecordLen
            /\ r.err # NilErr =>
                  /\ r.reader = Len(stream)
                  /\ r.reader < obs.dataStart + obs.reads * RecordLen
                  /\ r.reader >= obs.dataStart + (obs.reads - 1) * RecordLen)

C18_Witness ==
    /\ phase = "open" /\ lastOp = "Next"
    /\ r.currentRecord = 2
    /\ obs.reads = 1 /\ obs.okReads = 1
    /\ RecordLen >= 2
    /\ r.reader = obs.dataStart + RecordLen
    /\ r.err = NilErr

(* C19.  ReadAll continues from the current position: on a well-formed     *)
(* input, after k Next/Read pairs it returns the records k+1..recordCount  *)
(* with a nil error.  Any ReadAll called after a ReadAll has returned      *)
(* yields an empty list and the error the earlier one returned.  A ReadAll *)
(* reads at most recordCount - cursor records.                             *)
C19_ReadAllContinues ==
    [][(phase = "open" /\ lastOp' = "ReadAll") =>
          /\ (WellFormed /\ obs.loop = "next") =>
                /\ lastRet'.err = NilErr
                /\ lastRet'.records = ExpectedRecords(Len(obs.got) + 1, RecordCount)
          /\ obs.allDone =>
                /\ lastRet'.records = <<>>
                /\ lastRet'.err = obs.allErr
          /\ obs'.reads - obs.reads <= RecordCount - r.currentRecord
      ]_vars

====
